---- MODULE Spec2Model ----
(***************************************************************************)
(* Filtering and normalization engine of event-sniper-m5-mvp               *)
(* (firmware/m5stickc_plus2/event_contract.py) as a state machine.         *)
(*                                                                         *)
(* A Python dict with the keys event_type, confidence, source, entities,   *)
(* timestamp is a record with those five fields.  A scalar field holds a   *)
(* string; three marker strings stand for what is not a Python str:        *)
(* Absent (the key is not in the dict), NoneV (Python None) and Int42 (an  *)
(* int).  The entities field is wrapped: [t |-> "list", v |-> <<...>>] is  *)
(* a Python list, t = "none" is None and t = "absent" a missing key.       *)
(***************************************************************************)
EXTENDS Integers, Sequences, FiniteSets, TLC

VARIABLES
    cand,    \* the caller's candidate dict (argument of the engine calls)
    last,    \* _last_accepted_event: [set |-> FALSE] is None
    shared,  \* last.ev's entities list is the same list object as cand's
    op,      \* the most recent step
    det,     \* what detect() did in the most recent process_raw_text
    ret,     \* what the most recent engine call returned (or raised)
    prev,    \* _last_accepted_event on entry of the most recent engine operation
    trail,   \* how far cand is along: rejected as a duplicate, reset, submitted again
    pc,            \* where the running process_raw_text call is, inside detect too
    detect_calls,  \* calls of detect() made by the running process_raw_text call
    posts,         \* requests.post calls made by the running process_raw_text call
    failure,       \* the failure the running process_raw_text call met in detection
    hist,          \* the records _last_accepted_event held up to the entry of the
                   \* most recent call, oldest first, since the last reset_state
    callers,       \* threads inside should_accept_event: position, argument, result
    serialized,    \* the deployment runs one call of should_accept_event at a time
    current_index, \* current_index of the device script
    shown,         \* the payload on the screen of the device
    presses        \* the latest loop() passes with a press: the buttons, the index before

engine == <<cand, last, shared, op, det, ret, prev, trail>>

\* what the engine's own steps leave alone
ext == <<pc, detect_calls, posts, failure, hist, callers, serialized, current_index, shown, presses>>

vars == <<cand, last, shared, op, det, ret, prev, trail,
          pc, detect_calls, posts, failure, hist, callers, serialized, current_index, shown, presses>>

\* ------------------------------------------------------------------ bounds
MaxEntities == 2

\* ------------------------------------------------------------ vocabularies
ALLOWED_EVENT_TYPES == {"POLITICAL_STATEMENT", "GLOBAL_EVENT", "MACRO_SHOCK"}

ALLOWED_SOURCES == {"GLOBAL_NEWS", "POLITICAL_STATEMENT", "GEOPOLITICS"}

GLOBAL_ENTITIES == {"TRUMP", "USA", "CHINA", "RUSSIA", "EU", "NATO", "FED", "IMF"}

\* ------------------------------------------------------------ Python values
Absent == "<absent>"
NoneV == "<None>"
Int42 == "<42>"

IsStr(v) == v \notin {Absent, NoneV, Int42}

\* str.upper() on the strings the model uses
Upper(s) ==
    CASE s = "high" -> "HIGH"
      [] s = "medium" -> "MEDIUM"
      [] s = "low" -> "LOW"
      [] s = "trump" -> "TRUMP"
      [] s = "Trump_Social" -> "TRUMP_SOCIAL"
      [] s = "trump_statement" -> "TRUMP_STATEMENT"
      [] s = "news" -> "NEWS"
      [] s = "global" -> "GLOBAL"
      [] s = "global_news" -> "GLOBAL_NEWS"
      [] s = "geopolitics" -> "GEOPOLITICS"
      [] s = "political_statement" -> "POLITICAL_STATEMENT"
      [] s = "missing_api_key" -> "MISSING_API_KEY"
      [] s = "openai_http_error" -> "OPENAI_HTTP_ERROR"
      [] s = "invalid_schema" -> "INVALID_SCHEMA"
      [] s = "network_error" -> "NETWORK_ERROR"
      [] s = "parse_error" -> "PARSE_ERROR"
      [] s = "unknown_error" -> "UNKNOWN_ERROR"
      [] s = "fed" -> "FED"
      [] s = "btc" -> "BTC"
      [] OTHER -> s

\* str(v) as an f-string formats it
Str(v) == IF v = Int42 THEN "42" ELSE IF v = NoneV THEN "None" ELSE v

ListOf(s) == [t |-> "list", v |-> s]
NoneList == [t |-> "none", v |-> <<>>]
AbsentList == [t |-> "absent", v |-> <<>>]

\* dict.get(key): None for a missing key
Get(e, k) == IF e[k] = Absent THEN NoneV ELSE e[k]

\* dict.get("entities"): None for a missing key
GetEntities(e) == IF e.entities.t = "absent" THEN NoneList ELSE e.entities

\* dict.get("entities", []): the empty list for a missing key
GetEntitiesOrEmpty(e) == IF e.entities.t = "absent" THEN ListOf(<<>>) ELSE e.entities

BlankEvent ==
    [event_type |-> Absent, confidence |-> Absent, source |-> Absent,
     entities |-> AbsentList, timestamp |-> Absent]

NoLast == [set |-> FALSE, ev |-> BlankEvent]
Stored(e) == [set |-> TRUE, ev |-> e]

BlankPayload == [event_type |-> "", confidence |-> "", symbol |-> ""]

\* what a call gives back: kind is "bool", "none", "payload", "record", "raise"
\* or "blank" (no call)
RetBool(b) == [kind |-> "bool", b |-> b, pay |-> BlankPayload, rec |-> BlankEvent]
RetNone == [kind |-> "none", b |-> FALSE, pay |-> BlankPayload, rec |-> BlankEvent]
RetRaise == [kind |-> "raise", b |-> FALSE, pay |-> BlankPayload, rec |-> BlankEvent]
RetPayload(p) == [kind |-> "payload", b |-> FALSE, pay |-> p, rec |-> BlankEvent]
RetRecord(r) == [kind |-> "record", b |-> FALSE, pay |-> BlankPayload, rec |-> r]
RetBlank == [kind |-> "blank", b |-> FALSE, pay |-> BlankPayload, rec |-> BlankEvent]

\* ------------------------------------------------------- Acceptance Policy
\* any(entity.upper() in GLOBAL_ENTITIES for entity in entities), left to right:
\* "T", "F", or "raise" when .upper() is called on an element that is no str
RECURSIVE AnyGlobal(_)
AnyGlobal(s) ==
    IF s = <<>> THEN "F"
    ELSE IF ~IsStr(Head(s)) THEN "raise"
    ELSE IF Upper(Head(s)) \in GLOBAL_ENTITIES THEN "T"
    ELSE AnyGlobal(Tail(s))

\* RULE 4 letting every list through, the empty one too
HasGlobalEntity_gate_open(e) ==
    IF GetEntitiesOrEmpty(e).t = "none" THEN "raise" ELSE "T"

\* RULE 4 asking only for an entity, whoever it names
HasGlobalEntity_any_entity(e) ==
    LET entities == GetEntitiesOrEmpty(e)
    IN  IF entities.t = "none" THEN "raise"
        ELSE IF entities.v = <<>> THEN "F" ELSE "T"

\* RULE 4; iterating over None raises TypeError
HasGlobalEntity(e) ==
    LET entities == GetEntitiesOrEmpty(e)
    IN  IF entities.t = "none" THEN "raise" ELSE AnyGlobal(entities.v)

\* events_are_identical comparing the timestamp as well
events_are_identical_timestamp(event1, event2) ==
    /\ event1.event_type = event2.event_type
    /\ event1.source = event2.source
    /\ event1.confidence = event2.confidence
    /\ event1.entities = event2.entities
    /\ event1.timestamp = event2.timestamp

\* the comparison taking the entities as a set, whatever their order
events_are_identical_any_order(event1, event2) ==
    /\ Get(event1, "event_type") = Get(event2, "event_type")
    /\ Get(event1, "source") = Get(event2, "source")
    /\ Get(event1, "confidence") = Get(event2, "confidence")
    /\ GetEntities(event1).t = GetEntities(event2).t
    /\ {GetEntities(event1).v[i] : i \in 1..Len(GetEntities(event1).v)}
         = {GetEntities(event2).v[i] : i \in 1..Len(GetEntities(event2).v)}

events_are_identical(event1, event2) ==
    /\ Get(event1, "event_type") = Get(event2, "event_type")
    /\ Get(event1, "source") = Get(event2, "source")
    /\ Get(event1, "confidence") = Get(event2, "confidence")
    /\ GetEntities(event1) = GetEntities(event2)

\* RULE 1 without the bypass: HIGH for every source
ConfidenceRule_no_bypass(e) == Get(e, "confidence") = "HIGH"

\* RULE 1 with the threshold at MEDIUM
ConfidenceRule_medium(e) ==
    Get(e, "source") = "POLITICAL_STATEMENT" \/ Get(e, "confidence") \in {"HIGH", "MEDIUM"}

\* RULE 1: confidence check with the POLITICAL_STATEMENT bypass
ConfidenceRule(e) ==
    LET confidence == Get(e, "confidence")
        source == Get(e, "source")
    IN  ~(source # "POLITICAL_STATEMENT" /\ confidence # "HIGH")

\* RULE 2
EventTypeRule(e) == Get(e, "event_type") \in ALLOWED_EVENT_TYPES

\* RULE 3
SourceRule(e) == Get(e, "source") \in ALLOWED_SOURCES

\* RULE 5 letting everything through
DuplicateRule_off(e, st) == TRUE

\* RULE 5 comparing with every record that was accepted, not with the last alone
DuplicateRule_all_accepted(e, st) ==
    /\ ~(st.set /\ events_are_identical(e, st.ev))
    /\ ~\E i \in 1..Len(hist) : events_are_identical(e, hist[i])

\* RULE 5
DuplicateRule(e, st) == ~(st.set /\ events_are_identical(e, st.ev))

\* should_accept_event leaving the source to RULE 1 (RULE 3 dropped)
should_accept_event_no_source_rule(e, st) ==
    IF ~ConfidenceRule(e) THEN "reject"
    ELSE IF ~EventTypeRule(e) THEN "reject"
    ELSE IF HasGlobalEntity(e) = "raise" THEN "raise"
    ELSE IF HasGlobalEntity(e) = "F" THEN "reject"
    ELSE IF ~DuplicateRule(e, st) THEN "reject"
    ELSE "accept"

\* should_accept_event, early return by early return: "accept", "reject", "raise"
should_accept_event(e, st) ==
    IF ~ConfidenceRule(e) THEN "reject"
    ELSE IF ~EventTypeRule(e) THEN "reject"
    ELSE IF ~SourceRule(e) THEN "reject"
    ELSE IF HasGlobalEntity(e) = "raise" THEN "raise"
    ELSE IF HasGlobalEntity(e) = "F" THEN "reject"
    ELSE IF ~DuplicateRule(e, st) THEN "reject"
    ELSE "accept"

\* the store moved above RULE 5: a duplicate is rejected and stored all the same,
\* and so is anything that got as far as RULE 4
StateAfter_store_early(e, st) ==
    IF ConfidenceRule(e) /\ EventTypeRule(e) /\ SourceRule(e) THEN Stored(e) ELSE st

\* _last_accepted_event after should_accept_event(e): event_payload.copy() on accept
StateAfter(e, st) ==
    IF should_accept_event(e, st) = "accept" THEN Stored(e) ELSE st

\* reset_state() assigning a local instead of the global
reset_state_local == last

\* reset_state()
reset_state == NoLast

\* --------------------------------------------------------------- Normalizer
\* a synonym table one of whose values is a key of it
SOURCE_MAP_chained(s) ==
    CASE s = "TRUMP" -> "POLITICAL_STATEMENT"
      [] s = "TRUMP_SOCIAL" -> "TRUMP"
      [] s = "NEWS" -> "GLOBAL"
      [] s = "GLOBAL" -> "GLOBAL_NEWS"
      [] OTHER -> s

\* SOURCE_MAP.get(s, s)
SOURCE_MAP(s) ==
    CASE s = "TRUMP" -> "POLITICAL_STATEMENT"
      [] s = "TRUMP_SOCIAL" -> "POLITICAL_STATEMENT"
      [] s = "NEWS" -> "GLOBAL_NEWS"
      [] s = "GLOBAL" -> "GLOBAL_NEWS"
      [] OTHER -> s

\* [e.upper() for e in entities]
RECURSIVE UpperAll(_)
UpperAll(s) == IF s = <<>> THEN <<>> ELSE <<Upper(Head(s))>> \o UpperAll(Tail(s))

\* normalize_event: the normalized copy, or the AttributeError of .upper()
\* on a value that is no str
normalize_event(e) ==
    IF e.confidence # Absent /\ ~IsStr(e.confidence) THEN RetRaise
    ELSE IF e.source # Absent /\ ~IsStr(e.source) THEN RetRaise
    ELSE IF e.entities.t = "list"
            /\ \E i \in 1..Len(e.entities.v) : ~IsStr(e.entities.v[i]) THEN RetRaise
    ELSE RetRecord(
        [e EXCEPT
            !.confidence = IF @ = Absent THEN @ ELSE Upper(@),
            !.source = IF @ = Absent THEN @ ELSE SOURCE_MAP(Upper(@)),
            !.entities = IF @.t = "list" THEN ListOf(UpperAll(@.v)) ELSE @])

\* -------------------------------------------------------- Payload Projector
\* the symbol taken from the entities with a repeated first entity dropped
Symbol_deduplicated(entities) ==
    IF Len(entities) >= 2 /\ entities[1] # entities[2]
    THEN Str(entities[1]) \o "/" \o Str(entities[2])
    ELSE IF Len(entities) >= 1 THEN Str(entities[1]) \o "/NEWS"
    ELSE "GLOBAL/NEWS"

\* process_event, lines 193-200
Symbol(entities) ==
    IF Len(entities) >= 2 THEN Str(entities[1]) \o "/" \o Str(entities[2])
    ELSE IF Len(entities) = 1 THEN Str(entities[1]) \o "/NEWS"
    ELSE "GLOBAL/NEWS"

Payload(e) ==
    [event_type |-> Get(e, "event_type"),
     confidence |-> Get(e, "confidence"),
     symbol |-> Symbol(GetEntitiesOrEmpty(e).v)]

\* ------------------------------------------------------------- Orchestrator
\* process_event: what it returns
process_event(e, st) ==
    LET o == should_accept_event(e, st)
    IN  IF o = "raise" THEN RetRaise
        ELSE IF o = "reject" THEN RetNone
        ELSE RetPayload(Payload(e))

\* detect(raw_text) as process_raw_text sees it
NoDetect == [kind |-> "none", ev |-> BlankEvent]
DetectImportError == [kind |-> "import_error", ev |-> BlankEvent]
DetectRaises == [kind |-> "raise", ev |-> BlankEvent]
DetectNonDict == [kind |-> "nondict", ev |-> BlankEvent]
DetectDict(e) == [kind |-> "dict", ev |-> e]

\* the try block handing the detection result to process_event as it is
TryBlock_no_normalize(d, st) ==
    IF d.kind \in {"import_error", "raise"}
    THEN [ret |-> RetRaise, last |-> st]
    ELSE IF d.kind # "dict"
    THEN [ret |-> RetNone, last |-> st]
    ELSE [ret |-> process_event(d.ev, st), last |-> StateAfter(d.ev, st)]

\* the try block of process_raw_text: what it returns or raises, and the state
TryBlock(d, st) ==
    IF d.kind \in {"import_error", "raise"}
    THEN [ret |-> RetRaise, last |-> st]
    ELSE IF d.kind # "dict"
    THEN [ret |-> RetNone, last |-> st]
    ELSE LET n == normalize_event(d.ev)
         IN  IF n.kind = "raise"
             THEN [ret |-> RetRaise, last |-> st]
             ELSE [ret |-> process_event(n.rec, st), last |-> StateAfter(n.rec, st)]

\* the try block without its except clauses: the exception goes to the caller
ExceptClauses_missing(r) == r

\* except ImportError / except Exception: return None
ExceptClauses(r) == IF r.kind = "raise" THEN RetNone ELSE r

process_raw_text(d, st) ==
    LET t == TryBlock(d, st)
    IN  [ret |-> ExceptClauses(t.ret), last |-> t.last]

\* the threads of a deployment that calls should_accept_event from two threads
Threads == {1, 2}

\* seen is _last_accepted_event as the thread read it at RULE 5
IdleCaller == [pc |-> "idle", event_payload |-> BlankEvent, seen |-> NoLast, ret |-> RetBlank]
NoCallers == [c \in Threads |-> IdleCaller]

\* ------------------------------------------------------------------ callers
\* values a caller of process_event / should_accept_event puts in a candidate
EventTypes == {"POLITICAL_STATEMENT", "LOCAL_EVENT"}
Confidences == {"HIGH", "MEDIUM", "LOW", Absent}
Sources == {"POLITICAL_STATEMENT", "GLOBAL_NEWS", "NEWS"}
Timestamps == {"t1", "t2"}
EntityNames == {"TRUMP", "BITCOIN"}

RECURSIVE SeqsUpTo(_, _)
SeqsUpTo(S, n) ==
    IF n = 0 THEN {<<>>}
    ELSE LET shorter == SeqsUpTo(S, n - 1)
         IN  shorter \cup {Append(s, x) : s \in shorter, x \in S}

EntityLists == SeqsUpTo(EntityNames, MaxEntities)

\* what detect() hands to process_raw_text when it returns a dict
DetectionRecords ==
    [event_type : {"POLITICAL_STATEMENT"},
     confidence : {"high", "LOW", Int42},
     source : {"trump", "news"},
     entities : {ListOf(<<"trump", "BITCOIN">>), ListOf(<<"BITCOIN", Int42>>), NoneList},
     timestamp : {"t2"}]

DetectOutcomes ==
    {DetectImportError, DetectRaises, DetectNonDict}
        \cup {DetectDict(e) : e \in DetectionRecords}

\* what a caller hands to normalize_event
NormalizeInputs ==
    [event_type : {"POLITICAL_STATEMENT"},
     confidence : {"high", "HIGH", Int42, Absent},
     source : {"trump", "Trump_Social", "trump_statement", "news", "global",
               "geopolitics", "GLOBAL_NEWS", "missing_api_key", NoneV, Absent},
     entities : {ListOf(l) : l \in SeqsUpTo({"trump", "BITCOIN", Int42}, MaxEntities)}
                    \cup {NoneList, AbsentList},
     timestamp : {"t1"}]

\* test_1 of __main__, with a timestamp
FirstCandidate ==
    [event_type |-> "POLITICAL_STATEMENT", confidence |-> "HIGH",
     source |-> "POLITICAL_STATEMENT", entities |-> ListOf(<<"TRUMP", "BITCOIN">>),
     timestamp |-> "t1"]

\* e fails RULE 5 and nothing else
OnlyDuplicate(e, st) ==
    should_accept_event(e, st) = "reject" /\ should_accept_event(e, NoLast) = "accept"

\* trail after a call of should_accept_event(e) in state st
TrailAfterCall(e, st) ==
    IF trail = "reset" THEN "again"
    ELSE IF OnlyDuplicate(e, st) THEN "duplicate"
    ELSE "none"

\* nothing of what is outside the engine has started
InitExt ==
    /\ pc = "idle"
    /\ detect_calls = 0
    /\ posts = 0
    /\ failure = "none"
    /\ hist = <<>>
    /\ callers = NoCallers
    /\ serialized = TRUE
    /\ current_index = 0
    /\ shown = BlankPayload
    /\ presses = <<>>

Init ==
    /\ cand = FirstCandidate
    /\ last = NoLast
    /\ shared = FALSE
    /\ op = "start"
    /\ det = NoDetect
    /\ ret = RetBlank
    /\ prev = NoLast
    /\ trail = "none"
    /\ InitExt

CallerStep ==
    /\ UNCHANGED ext
    /\ op' = "caller"
    /\ det' = NoDetect
    /\ ret' = RetBlank
    /\ prev' = NoLast
    /\ trail' = "none"

\* the caller builds its next candidate: candidate[k] = v
SetField ==
    \E k \in {"event_type", "confidence", "source", "timestamp"} :
      \E v \in (CASE k = "event_type" -> EventTypes
                  [] k = "confidence" -> Confidences
                  [] k = "source" -> Sources
                  [] OTHER -> Timestamps) :
        /\ cand[k] # v
        /\ cand' = [cand EXCEPT ![k] = v]
        /\ CallerStep
        /\ UNCHANGED <<last, shared>>

\* candidate["entities"] = [...]: a new list object
SetEntities ==
    \E s \in EntityLists :
        /\ cand' = [cand EXCEPT !.entities = ListOf(s)]
        /\ shared' = FALSE
        /\ CallerStep
        /\ UNCHANGED last

\* should_accept_event(candidate); event_payload.copy() is a shallow copy, so the
\* dict it stores holds the candidate's own entities list
ShouldAccept ==
    LET o == should_accept_event(cand, last)
    IN  /\ op' = "should_accept"
        /\ prev' = last
        /\ last' = StateAfter(cand, last)
        /\ shared' = IF o = "accept" THEN TRUE ELSE shared
        /\ ret' = IF o = "raise" THEN RetRaise ELSE RetBool(o = "accept")
        /\ trail' = TrailAfterCall(cand, last)
        /\ det' = NoDetect
        /\ UNCHANGED cand
        /\ UNCHANGED ext

\* process_event(candidate)
ProcessEvent ==
    /\ op' = "process_event"
    /\ prev' = last
    /\ last' = StateAfter(cand, last)
    /\ shared' = IF should_accept_event(cand, last) = "accept" THEN TRUE ELSE shared
    /\ ret' = process_event(cand, last)
    /\ trail' = TrailAfterCall(cand, last)
    /\ det' = NoDetect
    /\ UNCHANGED cand
    /\ UNCHANGED ext

\* reset_state()
Reset ==
    /\ op' = "reset"
    /\ prev' = last
    /\ last' = reset_state
    /\ shared' = FALSE
    /\ ret' = RetBlank
    /\ trail' = IF trail = "duplicate" THEN "reset" ELSE "none"
    /\ det' = NoDetect
    /\ UNCHANGED cand
    /\ UNCHANGED ext

Next ==
    \/ SetField
    \/ SetEntities
    \/ ShouldAccept
    \/ ProcessEvent
    \/ Reset

Spec == Init /\ [][Next]_vars

\* ------------------------------------------- the engine behind process_raw_text
\* process_raw_text(text), detect(text) doing d
ProcessRawText ==
    \E d \in DetectOutcomes :
        LET r == process_raw_text(d, last)
        IN  /\ op' = "process_raw_text"
            /\ det' = d
            /\ prev' = last
            /\ last' = r.last
            /\ shared' = IF r.last # last THEN FALSE ELSE shared
            /\ ret' = r.ret
            /\ trail' = "none"
            /\ UNCHANGED cand
            /\ UNCHANGED ext

NextRaw ==
    \/ SetField
    \/ ProcessEvent
    \/ ProcessRawText
    \/ Reset

SpecRaw == Init /\ [][NextRaw]_vars

\* ------------------------------------ a caller that keeps using its list object
\* candidate["entities"].append(x): the list object changes in place, and with it
\* the entities of every dict that holds the same list
AppendEntity ==
    \E x \in EntityNames :
        /\ cand.entities.t = "list"
        /\ Len(cand.entities.v) < MaxEntities
        /\ cand' = [cand EXCEPT !.entities.v = Append(@, x)]
        /\ last' = IF shared THEN [last EXCEPT !.ev.entities.v = Append(@, x)] ELSE last
        /\ op' = "mutate"
        /\ prev' = last
        /\ det' = NoDetect
        /\ ret' = RetBlank
        /\ trail' = "none"
        /\ UNCHANGED shared
        /\ UNCHANGED ext

\* candidate["entities"].pop()
PopEntity ==
    /\ cand.entities.t = "list"
    /\ Len(cand.entities.v) > 0
    /\ cand' = [cand EXCEPT !.entities.v = SubSeq(@, 1, Len(@) - 1)]
    /\ last' = IF shared
               THEN [last EXCEPT !.ev.entities.v = SubSeq(@, 1, Len(@) - 1)]
               ELSE last
    /\ op' = "mutate"
    /\ prev' = last
    /\ det' = NoDetect
    /\ ret' = RetBlank
    /\ trail' = "none"
    /\ UNCHANGED shared
    /\ UNCHANGED ext

NextAlias ==
    \/ SetField
    \/ SetEntities
    \/ ShouldAccept
    \/ ProcessEvent
    \/ Reset
    \/ AppendEntity
    \/ PopEntity

SpecAlias == Init /\ [][NextAlias]_vars

\* ------------------------------------------- process_event on longer entity lists
MaxSymbolEntities == 3

ProjectInputs ==
    [event_type : {"POLITICAL_STATEMENT", "MACRO_SHOCK"},
     confidence : {"HIGH", "LOW", Absent},
     source : {"POLITICAL_STATEMENT", "GEOPOLITICS"},
     entities : {ListOf(l) : l \in SeqsUpTo({"NATO", "CHINA", "BITCOIN", "GLOBAL", "NEWS"},
                                             MaxSymbolEntities)}
                    \cup {AbsentList},
     timestamp : {"t1"}]

InitProject ==
    /\ cand \in ProjectInputs
    /\ last = NoLast
    /\ shared = FALSE
    /\ op = "start"
    /\ det = NoDetect
    /\ ret = RetBlank
    /\ prev = NoLast
    /\ trail = "none"
    /\ InitExt

NextProject ==
    \/ ProcessEvent
    \/ Reset

SpecProject == InitProject /\ [][NextProject]_vars

\* ------------------------------------------ a caller submitting whole records
MaxHist == 2

\* the records the caller submits
WindowRecords ==
    [event_type : {"POLITICAL_STATEMENT"},
     confidence : {"HIGH", "LOW"},
     source : {"POLITICAL_STATEMENT", "GLOBAL_NEWS"},
     entities : {ListOf(<<"TRUMP">>), ListOf(<<"TRUMP", "BITCOIN">>)},
     timestamp : Timestamps]

\* the caller's next candidate is another record
PickCandidate ==
    \E e \in WindowRecords :
        /\ cand # e
        /\ cand' = e
        /\ shared' = FALSE
        /\ CallerStep
        /\ UNCHANGED last

\* h with the record st holds on top, the oldest dropped beyond MaxHist
Held(h, st) ==
    IF ~st.set \/ (h # <<>> /\ h[Len(h)] = st.ev) THEN h
    ELSE IF Len(h) < MaxHist THEN Append(h, st.ev)
    ELSE Append(Tail(h), st.ev)

\* should_accept_event(candidate), the held records remembered
ShouldAcceptRecorded ==
    LET o == should_accept_event(cand, last)
    IN  /\ op' = "should_accept"
        /\ prev' = last
        /\ last' = StateAfter(cand, last)
        /\ shared' = IF o = "accept" THEN TRUE ELSE shared
        /\ ret' = IF o = "raise" THEN RetRaise ELSE RetBool(o = "accept")
        /\ hist' = Held(hist, last)
        /\ det' = NoDetect
        /\ UNCHANGED <<cand, trail>>
        /\ UNCHANGED <<pc, detect_calls, posts, failure>>
        /\ UNCHANGED <<callers, serialized, current_index, shown, presses>>

\* reset_state(), the held records forgotten
ResetRecorded ==
    /\ op' = "reset"
    /\ prev' = last
    /\ last' = reset_state
    /\ shared' = FALSE
    /\ ret' = RetBlank
    /\ hist' = <<>>
    /\ det' = NoDetect
    /\ UNCHANGED <<cand, trail>>
    /\ UNCHANGED <<pc, detect_calls, posts, failure>>
    /\ UNCHANGED <<callers, serialized, current_index, shown, presses>>

NextWindow ==
    \/ PickCandidate
    \/ ShouldAcceptRecorded
    \/ ResetRecorded

SpecWindow == Init /\ [][NextWindow]_vars

\* ------------------------------- should_accept_event called from two threads
\* the records the threads submit
ThreadRecords ==
    [event_type : {"POLITICAL_STATEMENT"},
     confidence : {"HIGH", "LOW"},
     source : {"POLITICAL_STATEMENT", "GLOBAL_NEWS"},
     entities : {ListOf(<<"TRUMP">>)},
     timestamp : Timestamps]

\* a thread is inside should_accept_event
InCall(c) == callers[c].pc \in {"gates", "store"}

\* a serialized deployment lets a call start only when no other call is running
MayEnter(c) == serialized => \A d \in Threads \ {c} : ~InCall(d)

InitThreads ==
    /\ cand = FirstCandidate
    /\ last = NoLast
    /\ shared = FALSE
    /\ op = "start"
    /\ det = NoDetect
    /\ ret = RetBlank
    /\ prev = NoLast
    /\ trail = "none"
    /\ pc = "idle"
    /\ detect_calls = 0
    /\ posts = 0
    /\ failure = "none"
    /\ hist = <<>>
    /\ callers = NoCallers
    /\ serialized \in BOOLEAN
    /\ current_index = 0
    /\ shown = BlankPayload
    /\ presses = <<>>

\* thread c calls should_accept_event(e)
Enter(c) ==
    /\ callers[c].pc = "idle"
    /\ MayEnter(c)
    /\ \E e \in ThreadRecords :
          callers' = [callers EXCEPT ![c] =
                         [pc |-> "gates", event_payload |-> e, seen |-> NoLast,
                          ret |-> RetBlank]]
    /\ UNCHANGED engine
    /\ UNCHANGED <<pc, detect_calls, posts, failure, hist, serialized>>
    /\ UNCHANGED <<current_index, shown, presses>>

\* RULE 1 to RULE 5 in thread c: the early returns, or on to the store
Gates(c) ==
    /\ callers[c].pc = "gates"
    /\ callers' = [callers EXCEPT ![c] =
          IF should_accept_event(callers[c].event_payload, last) = "accept"
          THEN [@ EXCEPT !.pc = "store", !.seen = last]
          ELSE [@ EXCEPT !.pc = "returned", !.seen = last, !.ret = RetBool(FALSE)]]
    /\ UNCHANGED engine
    /\ UNCHANGED <<pc, detect_calls, posts, failure, hist, serialized>>
    /\ UNCHANGED <<current_index, shown, presses>>

\* _last_accepted_event = event_payload.copy(); return True, in thread c
Store(c) ==
    /\ callers[c].pc = "store"
    /\ last' = Stored(callers[c].event_payload)
    /\ callers' = [callers EXCEPT ![c] = [@ EXCEPT !.pc = "returned", !.ret = RetBool(TRUE)]]
    /\ UNCHANGED <<cand, shared, op, det, ret, prev, trail>>
    /\ UNCHANGED <<pc, detect_calls, posts, failure, hist, serialized>>
    /\ UNCHANGED <<current_index, shown, presses>>

\* with no call running, the threads get ready for their next calls
NextCalls ==
    /\ \A c \in Threads : ~InCall(c)
    /\ \E c \in Threads : callers[c].pc = "returned"
    /\ callers' = NoCallers
    /\ UNCHANGED engine
    /\ UNCHANGED <<pc, detect_calls, posts, failure, hist, serialized>>
    /\ UNCHANGED <<current_index, shown, presses>>

NextThreads ==
    \/ \E c \in Threads : Enter(c)
    \/ \E c \in Threads : Gates(c)
    \/ \E c \in Threads : Store(c)
    \/ NextCalls

SpecThreads == InitThreads /\ [][NextThreads]_vars

\* ------------------------------------- process_raw_text and detect step by step
\* a fallback that passes for a first-class statement
safe_fallback_first_class(source) ==
    [event_type |-> "POLITICAL_STATEMENT", confidence |-> "LOW", source |-> "trump",
     entities |-> ListOf(<<"trump">>), timestamp |-> "t2"]

\* _safe_fallback(source)
safe_fallback(source) ==
    [event_type |-> "GLOBAL_EVENT", confidence |-> "LOW", source |-> source,
     entities |-> ListOf(<<>>), timestamp |-> "t2"]

\* where detect goes after requests.post, retrying the request when it failed
AfterPost_retry(o) ==
    CASE o = "request_exception" ->
            [pc |-> "post", failure |-> "none", det |-> NoDetect]
      [] o = "not_200" ->
            [pc |-> "finish", failure |-> "http_status",
             det |-> DetectDict(safe_fallback("openai_http_error"))]
      [] OTHER -> [pc |-> "parse", failure |-> "none", det |-> NoDetect]

\* where detect goes after requests.post: timeout and transport failures are
\* RequestException, any status but 200 is a fallback, 200 goes on to the body
AfterPost(o) ==
    CASE o = "request_exception" ->
            [pc |-> "finish", failure |-> "network",
             det |-> DetectDict(safe_fallback("network_error"))]
      [] o = "not_200" ->
            [pc |-> "finish", failure |-> "http_status",
             det |-> DetectDict(safe_fallback("openai_http_error"))]
      [] OTHER -> [pc |-> "parse", failure |-> "none", det |-> NoDetect]

PostOutcomes == {"request_exception", "not_200", "ok_200"}

\* all(field in result for field in required_fields) on a dict
HasRequiredFields(r) ==
    /\ r.event_type # Absent
    /\ r.confidence # Absent
    /\ r.source # Absent
    /\ r.entities.t # "absent"
    /\ r.timestamp # Absent

\* what the body of a 200 response turns out to be
BodyNoJson == [kind |-> "no_json", ev |-> BlankEvent]
BodyNoChoices == [kind |-> "no_choices", ev |-> BlankEvent]
BodyListContent == [kind |-> "list", ev |-> BlankEvent]
BodyNumberContent == [kind |-> "number", ev |-> BlankEvent]
BodyDict(e) == [kind |-> "dict", ev |-> e]

\* detect from response.json() to its return
AfterParse(b) ==
    CASE b.kind = "no_json" ->
            [failure |-> "parse", det |-> DetectDict(safe_fallback("parse_error"))]
      [] b.kind = "no_choices" ->
            [failure |-> "other", det |-> DetectDict(safe_fallback("unknown_error"))]
      [] b.kind = "number" ->
            [failure |-> "other", det |-> DetectDict(safe_fallback("unknown_error"))]
      [] b.kind = "list" ->
            [failure |-> "schema", det |-> DetectDict(safe_fallback("invalid_schema"))]
      [] OTHER ->
            IF HasRequiredFields(b.ev)
            THEN [failure |-> "none", det |-> DetectDict(b.ev)]
            ELSE [failure |-> "schema", det |-> DetectDict(safe_fallback("invalid_schema"))]

\* records the model answers with, some without a required field
ModelAnswers ==
    DetectionRecords
        \cup {[e EXCEPT !.timestamp = Absent] : e \in DetectionRecords}
        \cup {[e EXCEPT !.entities = AbsentList] : e \in DetectionRecords}

Bodies ==
    {BodyNoJson, BodyNoChoices, BodyListContent, BodyNumberContent}
        \cup {BodyDict(e) : e \in ModelAnswers}

\* process_raw_text(text) is called
RawCall ==
    /\ pc \in {"idle", "done"}
    /\ pc' = "import"
    /\ detect_calls' = 0
    /\ posts' = 0
    /\ failure' = "none"
    /\ op' = "process_raw_text"
    /\ det' = NoDetect
    /\ ret' = RetBlank
    /\ prev' = last
    /\ UNCHANGED <<cand, last, shared, trail>>
    /\ UNCHANGED <<hist, callers, serialized, current_index, shown, presses>>

\* from detection_adapter import detect
ImportDetect ==
    /\ pc = "import"
    /\ \E ok \in BOOLEAN :
          IF ok
          THEN pc' = "call" /\ failure' = failure /\ det' = det
          ELSE pc' = "finish" /\ failure' = "import" /\ det' = DetectImportError
    /\ UNCHANGED <<cand, last, shared, op, ret, prev, trail, detect_calls, posts>>
    /\ UNCHANGED <<hist, callers, serialized, current_index, shown, presses>>

\* detect(raw_text) is entered; os.getenv("OPENAI_API_KEY")
CallDetect ==
    /\ pc = "call"
    /\ detect_calls' = detect_calls + 1
    /\ \E has_key \in BOOLEAN :
          IF has_key
          THEN pc' = "post" /\ failure' = failure /\ det' = det
          ELSE /\ pc' = "finish"
               /\ failure' = "api_key"
               /\ det' = DetectDict(safe_fallback("missing_api_key"))
    /\ UNCHANGED <<cand, last, shared, op, ret, prev, trail, posts>>
    /\ UNCHANGED <<hist, callers, serialized, current_index, shown, presses>>

\* requests.post(..., timeout=20) and the status check
Post ==
    /\ pc = "post"
    /\ posts' = posts + 1
    /\ \E o \in PostOutcomes :
          /\ pc' = AfterPost(o).pc
          /\ failure' = AfterPost(o).failure
          /\ det' = AfterPost(o).det
    /\ UNCHANGED <<cand, last, shared, op, ret, prev, trail, detect_calls>>
    /\ UNCHANGED <<hist, callers, serialized, current_index, shown, presses>>

\* response.json(), json.loads(text), the required fields
ParseResponse ==
    /\ pc = "parse"
    /\ pc' = "finish"
    /\ \E b \in Bodies :
          /\ failure' = AfterParse(b).failure
          /\ det' = AfterParse(b).det
    /\ UNCHANGED <<cand, last, shared, op, ret, prev, trail, detect_calls, posts>>
    /\ UNCHANGED <<hist, callers, serialized, current_index, shown, presses>>

\* the rest of process_raw_text: isinstance, normalize_event, process_event, return
FinishRawCall ==
    /\ pc = "finish"
    /\ pc' = "done"
    /\ ret' = process_raw_text(det, last).ret
    /\ last' = process_raw_text(det, last).last
    /\ shared' = FALSE
    /\ UNCHANGED <<cand, op, det, prev, trail, detect_calls, posts, failure>>
    /\ UNCHANGED <<hist, callers, serialized, current_index, shown, presses>>

\* reset_state() between two calls of process_raw_text
ResetBetweenCalls ==
    /\ pc \in {"idle", "done"}
    /\ pc' = "idle"
    /\ detect_calls' = 0
    /\ posts' = 0
    /\ failure' = "none"
    /\ op' = "reset"
    /\ prev' = last
    /\ last' = reset_state
    /\ shared' = FALSE
    /\ ret' = RetBlank
    /\ det' = NoDetect
    /\ UNCHANGED <<cand, trail>>
    /\ UNCHANGED <<hist, callers, serialized, current_index, shown, presses>>

NextDetect ==
    \/ RawCall
    \/ ImportDetect
    \/ CallDetect
    \/ Post
    \/ ParseResponse
    \/ FinishRawCall
    \/ ResetBetweenCalls

SpecDetect == Init /\ [][NextDetect]_vars

\* ------------------------------------------------ the payload cycle on the device
EXAMPLE_PAYLOADS ==
    << [event_type |-> "NEW_LISTING", confidence |-> "HIGH", symbol |-> "PEPE/USDT"],
       [event_type |-> "VOLUME_SPIKE", confidence |-> "MEDIUM", symbol |-> "SOL/USDT"],
       [event_type |-> "WHALE_BUY", confidence |-> "LOW", symbol |-> "DOGE/USDT"],
       [event_type |-> "PRICE_BREAKOUT", confidence |-> "HIGH", symbol |-> "BTC/USDT"] >>

\* EXAMPLE_PAYLOADS[i], Python counting from 0
PayloadAt(i) == EXAMPLE_PAYLOADS[i + 1]

\* button B stopping at the first payload
PrevIndex_stop_at_first(i) == IF i = 0 THEN 0 ELSE i - 1

\* (current_index + 1) % len(EXAMPLE_PAYLOADS)
NextIndex(i) == (i + 1) % Len(EXAMPLE_PAYLOADS)

\* (current_index - 1) % len(EXAMPLE_PAYLOADS); Python's % gives 0 .. len - 1
PrevIndex(i) == (i - 1) % Len(EXAMPLE_PAYLOADS)

\* the passes of loop() the model remembers: as many as there are payloads
Remembered(p) == IF Len(p) > Len(EXAMPLE_PAYLOADS) THEN Tail(p) ELSE p

\* setup(): display_event(EXAMPLE_PAYLOADS[current_index])
Setup ==
    /\ shown = BlankPayload
    /\ shown' = PayloadAt(current_index)
    /\ UNCHANGED <<current_index, presses>>
    /\ UNCHANGED engine
    /\ UNCHANGED <<pc, detect_calls, posts, failure, hist, callers, serialized>>

\* one pass of loop(): BtnA.wasPressed() is a, BtnB.wasPressed() is b
Loop ==
    /\ shown # BlankPayload
    /\ \E a, b \in BOOLEAN :
          LET afterA == IF a THEN NextIndex(current_index) ELSE current_index
              afterB == IF b THEN PrevIndex(afterA) ELSE afterA
          IN  /\ current_index' = afterB
              /\ shown' = IF b THEN PayloadAt(afterB)
                          ELSE IF a THEN PayloadAt(afterA)
                          ELSE shown
              /\ presses' = IF a \/ b
                            THEN Remembered(Append(presses,
                                    [a |-> a, b |-> b, from |-> current_index]))
                            ELSE presses
    /\ UNCHANGED engine
    /\ UNCHANGED <<pc, detect_calls, posts, failure, hist, callers, serialized>>

NextDevice ==
    \/ Setup
    \/ Loop

SpecDevice == Init /\ [][NextDevice]_vars

\* ------------------------------------------------------- normalize_event alone
InitNorm ==
    /\ cand \in NormalizeInputs
    /\ last = NoLast
    /\ shared = FALSE
    /\ op = "start"
    /\ det = NoDetect
    /\ ret = RetBlank
    /\ prev = NoLast
    /\ trail = "none"
    /\ InitExt

\* normalize_event(candidate)
Normalize ==
    /\ op = "start"
    /\ op' = "normalize"
    /\ ret' = normalize_event(cand)
    /\ UNCHANGED <<cand, last, shared, det, prev, trail>>
    /\ UNCHANGED ext

NextNorm == Normalize

SpecNorm == InitNorm /\ [][NextNorm]_vars

\* ---------------------------------------- all four operations on one candidate
\* normalize_event writing into the dict it was given
ArgumentAfterNormalize_in_place(e) ==
    IF normalize_event(e).kind = "record" THEN normalize_event(e).rec ELSE e

\* the caller's dict after normalize_event(e): line 153 rebinds event to
\* event.copy(), the assignments go to the copy, the entities are a new list
ArgumentAfterNormalize(e) == e

\* normalize_event(candidate)
NormalizeCandidate ==
    /\ op' = "normalize"
    /\ ret' = normalize_event(cand)
    /\ cand' = ArgumentAfterNormalize(cand)
    /\ prev' = last
    /\ det' = NoDetect
    /\ trail' = "none"
    /\ UNCHANGED <<last, shared>>
    /\ UNCHANGED ext

NextFrame ==
    \/ SetField
    \/ NormalizeCandidate
    \/ ShouldAccept
    \/ ProcessEvent
    \/ ProcessRawText
    \/ Reset

SpecFrame == Init /\ [][NextFrame]_vars

\* ------------------------------------------- normalize_event on its own result
\* normalize_event(normalize_event(candidate)): the result of the first call is
\* the argument of the second
NormalizeAgain ==
    /\ op = "normalize"
    /\ ret.kind = "record"
    /\ op' = "normalize_again"
    /\ cand' = ret.rec
    /\ ret' = normalize_event(ret.rec)
    /\ UNCHANGED <<last, shared, det, prev, trail>>
    /\ UNCHANGED ext

NextTwice ==
    \/ Normalize
    \/ NormalizeAgain

SpecTwice == InitNorm /\ [][NextTwice]_vars

\* =================================================================== claims
Called == op \in {"should_accept", "process_event"}

Accepted ==
    \/ op = "should_accept" /\ ret = RetBool(TRUE)
    \/ op \in {"process_event", "process_raw_text"} /\ ret.kind = "payload"

Rejected ==
    \/ op = "should_accept" /\ ret = RetBool(FALSE)
    \/ op \in {"process_event", "process_raw_text"} /\ ret = RetNone

\* equal on event_type, source, confidence and entities (in order)
FourFieldsEqual(a, b) ==
    /\ a.event_type = b.event_type
    /\ a.source = b.source
    /\ a.confidence = b.confidence
    /\ a.entities = b.entities

NamesGlobalActor(e) ==
    /\ e.entities.t = "list"
    /\ \E i \in 1..Len(e.entities.v) : e.entities.v[i] \in GLOBAL_ENTITIES

\* the five gates of the policy, all evaluated, last gate first
AllGates(e, st) ==
    /\ DuplicateRule(e, st)
    /\ HasGlobalEntity(e) = "T"
    /\ SourceRule(e)
    /\ EventTypeRule(e)
    /\ ConfidenceRule(e)

\* C1: a candidate that equals the record in AcceptanceState (the last accepted
\* record R, not since replaced or reset) on event_type, source, confidence and
\* entities is rejected, whatever its timestamp, and R stays in AcceptanceState
C1_DuplicateRejected ==
    (Called /\ prev.set /\ FourFieldsEqual(cand, prev.ev)) => (Rejected /\ last = prev)

C1_Witness ==
    /\ op = "should_accept"
    /\ prev.set
    /\ FourFieldsEqual(cand, prev.ev)
    /\ cand.timestamp # prev.ev.timestamp
    /\ ret = RetBool(FALSE)

\* C2: a POLITICAL_STATEMENT-source record with an allowed event_type, a global
\* actor among its entities and no four-field-identical record in AcceptanceState
\* is accepted with confidence LOW, MEDIUM or HIGH
C2_FirstClassBypass ==
    ( /\ op = "should_accept"
      /\ cand.source = "POLITICAL_STATEMENT"
      /\ cand.event_type \in ALLOWED_EVENT_TYPES
      /\ NamesGlobalActor(cand)
      /\ cand.confidence \in {"LOW", "MEDIUM", "HIGH"}
      /\ ~(prev.set /\ FourFieldsEqual(cand, prev.ev)) )
    => (ret = RetBool(TRUE) /\ last = Stored(cand))

C2_Witness ==
    /\ op = "should_accept"
    /\ cand.source = "POLITICAL_STATEMENT"
    /\ cand.confidence = "LOW"
    /\ prev.set
    /\ prev.ev.confidence = "MEDIUM"
    /\ ret = RetBool(TRUE)

\* C3: a record whose source is not POLITICAL_STATEMENT and whose confidence is
\* not exactly HIGH is rejected by should_accept_event and by process_event,
\* whatever its event_type and entities are
C3_HighThreshold ==
    (Called /\ cand.source # "POLITICAL_STATEMENT" /\ cand.confidence # "HIGH")
    => (Rejected /\ last = prev)

C3_Witness ==
    /\ op = "process_event"
    /\ cand.source = "GLOBAL_NEWS"
    /\ cand.confidence = "MEDIUM"
    /\ cand.event_type \in ALLOWED_EVENT_TYPES
    /\ NamesGlobalActor(cand)
    /\ ~prev.set
    /\ ret = RetNone

\* C4: the boolean should_accept_event returns, and AcceptanceState after it, are
\* those of the conjunction of the five gates evaluated in another order
C4_ConjunctionOfGates ==
    op = "should_accept" =>
        /\ ret = RetBool(AllGates(cand, prev))
        /\ last = IF AllGates(cand, prev) THEN Stored(cand) ELSE prev

C4_Witness ==
    /\ op = "should_accept"
    /\ ret = RetBool(FALSE)
    /\ ConfidenceRule(cand)
    /\ EventTypeRule(cand)
    /\ ~SourceRule(cand)
    /\ HasGlobalEntity(cand) = "F"
    /\ prev.set

\* C5: AcceptanceState is empty at start; a call of should_accept_event or
\* process_event overwrites it with the candidate exactly when it accepts and
\* leaves it unchanged when it rejects; only reset_state empties it; nothing else
\* changes it
C5_Lifecycle ==
    /\ last = NoLast
    /\ [][ /\ (op' \in {"should_accept", "process_event"} /\ Accepted')
                => last' = Stored(cand)
           /\ (op' \in {"should_accept", "process_event"} /\ Rejected')
                => last' = last
           /\ op' \in {"should_accept", "process_event"} => (Accepted' \/ Rejected')
           /\ (last.set /\ ~last'.set) => op' = "reset"
           /\ op' = "reset" => ~last'.set
           /\ op' = "caller" => last' = last ]_vars

\* a rejected candidate, different from the accepted record, left the record in place
C5_Witness ==
    /\ op = "process_event"
    /\ ret = RetNone
    /\ prev.set
    /\ ~FourFieldsEqual(cand, prev.ev)
    /\ last = prev

\* C6: a candidate rejected only as a duplicate of the last accepted record is
\* accepted when it is submitted again after reset_state
C6_AcceptedAfterReset == trail = "again" => Accepted

C6_Witness == trail = "again" /\ op = "should_accept" /\ ret = RetBool(TRUE)

\* C7 as claimed: process_event normalizes its candidate before the policy and
\* the projection
C7_ProcessEventNormalizes ==
    (op = "process_event" /\ normalize_event(cand).kind = "record") =>
        LET n == normalize_event(cand).rec
        IN  ret = IF AllGates(n, prev) THEN RetPayload(Payload(n)) ELSE RetNone

\* a detection record normalize_event and the policy take without raising
WellTyped(e) == normalize_event(e).kind = "record" /\ HasGlobalEntity(e) # "raise"

\* C7 as amended: process_event applies the policy and the projection to the
\* candidate as it is given; process_raw_text normalizes the detection record
\* and applies the policy and the projection to the normalized record
C7_NormalizeInProcessRawText ==
    /\ op = "process_event" =>
        /\ ret = IF AllGates(cand, prev) THEN RetPayload(Payload(cand)) ELSE RetNone
        /\ last = IF AllGates(cand, prev) THEN Stored(cand) ELSE prev
    /\ (op = "process_raw_text" /\ det.kind = "dict" /\ WellTyped(det.ev)) =>
        LET n == normalize_event(det.ev).rec
        IN  /\ ret = IF AllGates(n, prev) THEN RetPayload(Payload(n)) ELSE RetNone
            /\ last = IF AllGates(n, prev) THEN Stored(n) ELSE prev

C7_Witness ==
    /\ op = "process_raw_text"
    /\ det.kind = "dict"
    /\ det.ev.source = "trump"
    /\ det.ev.confidence = "high"
    /\ prev.set
    /\ ret = RetPayload([event_type |-> "POLITICAL_STATEMENT", confidence |-> "HIGH",
                         symbol |-> "TRUMP/BITCOIN"])

\* C8: when detect cannot be imported, raises, or returns something that is no
\* dict, process_raw_text returns None, raises nothing and leaves AcceptanceState
\* unchanged
C8_DetectionFailureAbsorbed ==
    (op = "process_raw_text" /\ det.kind \in {"import_error", "raise", "nondict"})
    => (ret = RetNone /\ last = prev)

C8_Witness ==
    /\ op = "process_raw_text"
    /\ det = DetectRaises
    /\ prev.set
    /\ ret = RetNone
    /\ last = prev

\* C9: the caller changing the entities list of its candidate in place leaves
\* AcceptanceState as it was
C9_StateIsolatedFromCaller == op = "mutate" => last = prev

\* C10: normalize_event raises on no input; a confidence, source or entities
\* element that is no string is in the result as it was
C10_NormalizeNeverRaises ==
    op = "normalize" =>
        /\ ret.kind = "record"
        /\ ~IsStr(cand.confidence) => ret.rec.confidence = cand.confidence
        /\ ~IsStr(cand.source) => ret.rec.source = cand.source
        /\ cand.entities.t # "list" => ret.rec.entities = cand.entities
        /\ cand.entities.t = "list" =>
              /\ Len(ret.rec.entities.v) = Len(cand.entities.v)
              /\ \A i \in 1..Len(cand.entities.v) :
                    ~IsStr(cand.entities.v[i])
                        => ret.rec.entities.v[i] = cand.entities.v[i]

\* the synonym table as C11 gives it
SynonymTable(s) ==
    CASE s \in {"TRUMP", "TRUMP_SOCIAL", "TRUMP_STATEMENT"} -> "POLITICAL_STATEMENT"
      [] s \in {"NEWS", "GLOBAL"} -> "GLOBAL_NEWS"
      [] OTHER -> s

\* C11: for every textual source, normalize_event gives the upper-cased source
\* mapped through the table TRUMP, TRUMP_SOCIAL, TRUMP_STATEMENT ->
\* POLITICAL_STATEMENT, NEWS, GLOBAL -> GLOBAL_NEWS, every other upper-cased
\* value unchanged
C11_SourceSynonymTable ==
    (op = "normalize" /\ ret.kind = "record" /\ IsStr(cand.source))
    => ret.rec.source = SynonymTable(Upper(cand.source))

\* the symbol C12 gives for a list of entities
SymbolOfFirstEntities(l) ==
    CASE Len(l) >= 2 -> l[1] \o "/" \o l[2]
      [] Len(l) = 1 -> l[1] \o "/NEWS"
      [] OTHER -> "GLOBAL/NEWS"

\* C12: the payload of an accepted record has the record's event_type and
\* confidence and the symbol made of the first entities in the order given,
\* neither sorted nor deduplicated: first/second for two or more entities,
\* first/NEWS for one, GLOBAL/NEWS for none
C12_SymbolDerivation ==
    /\ (op = "process_event" /\ ret.kind = "payload") =>
        /\ ret.pay.event_type = Get(cand, "event_type")
        /\ ret.pay.confidence = Get(cand, "confidence")
        /\ ret.pay.symbol = SymbolOfFirstEntities(cand.entities.v)
    /\ Symbol(<<>>) = "GLOBAL/NEWS"

\* three entities, the first two alike and not in sorted order with the third
C12_Witness ==
    /\ op = "process_event"
    /\ cand.entities = ListOf(<<"NATO", "NATO", "CHINA">>)
    /\ cand.confidence = "LOW"
    /\ ret.kind = "payload"
    /\ ret.pay.symbol = "NATO/NATO"

C12_WitnessOne ==
    /\ op = "process_event"
    /\ cand.entities = ListOf(<<"CHINA">>)
    /\ ret.kind = "payload"
    /\ ret.pay.symbol = "CHINA/NEWS"

\* C13: every payload process_event or process_raw_text returns has exactly the
\* fields event_type, confidence and symbol, each holding a string, never a
\* missing or null value
C13_ThreeStringFields ==
    (op \in {"process_event", "process_raw_text"} /\ ret.kind = "payload") =>
        /\ DOMAIN ret.pay = {"event_type", "confidence", "symbol"}
        /\ IsStr(ret.pay.event_type)
        /\ IsStr(ret.pay.confidence)
        /\ IsStr(ret.pay.symbol)

Reordered(a, b) ==
    /\ a # b
    /\ Len(a) = Len(b)
    /\ \A i \in 1..Len(a) :
          Cardinality({j \in 1..Len(a) : a[j] = a[i]})
              = Cardinality({j \in 1..Len(b) : b[j] = a[i]})

\* C15: with record R held in AcceptanceState, a candidate equal to R on
\* event_type, source and confidence whose entities are those of R in another
\* order is no duplicate: it is accepted and replaces R
C15_ReorderedNotDuplicate ==
    ( /\ Called
      /\ prev.set
      /\ cand.event_type = prev.ev.event_type
      /\ cand.source = prev.ev.source
      /\ cand.confidence = prev.ev.confidence
      /\ Reordered(prev.ev.entities.v, cand.entities.v) )
    => (Accepted /\ last = Stored(cand))

C15_Witness ==
    /\ op = "should_accept"
    /\ prev.set
    /\ prev.ev.entities = ListOf(<<"TRUMP", "BITCOIN">>)
    /\ cand = [prev.ev EXCEPT !.entities = ListOf(<<"BITCOIN", "TRUMP">>)]
    /\ ret = RetBool(TRUE)
    /\ last = Stored(cand)

\* detection failed in the process_raw_text call that has just returned
DetectionFailed == pc = "done" /\ failure # "none"

\* C16: a call of process_raw_text calls detect at most once and detect sends
\* at most one request, also when the request times out or fails; a failed
\* detection ends the call with None and AcceptanceState as it was
C16_NoRetry ==
    /\ detect_calls <= 1
    /\ posts <= 1
    /\ DetectionFailed => (ret = RetNone /\ last = prev)

C16_Witness ==
    /\ DetectionFailed
    /\ failure = "network"
    /\ detect_calls = 1
    /\ posts = 1
    /\ prev.set
    /\ ret = RetNone
    /\ last = prev

\* C17: with A accepted and then a different record B accepted, a candidate
\* equal to A on the four compared fields is accepted again and replaces B: the
\* comparison is with the single record held, not with what was held before
C17_WindowOfOne ==
    ( /\ op = "should_accept"
      /\ Len(hist) >= 2
      /\ prev = Stored(hist[Len(hist)])
      /\ FourFieldsEqual(cand, hist[Len(hist) - 1])
      /\ ~FourFieldsEqual(cand, hist[Len(hist)]) )
    => (ret = RetBool(TRUE) /\ last = Stored(cand))

\* A, then B, then A with another timestamp
C17_Witness ==
    /\ op = "should_accept"
    /\ Len(hist) = 2
    /\ prev = Stored(hist[2])
    /\ FourFieldsEqual(cand, hist[1])
    /\ cand.timestamp # hist[1].timestamp
    /\ ~FourFieldsEqual(cand, hist[2])
    /\ ret = RetBool(TRUE)
    /\ last = Stored(cand)

\* the sources detect gives its fallback records
FallbackSources ==
    {"missing_api_key", "openai_http_error", "network_error", "parse_error",
     "invalid_schema", "unknown_error"}

\* detect itself failed in the running or the returned call
DetectFellBack == pc \in {"finish", "done"} /\ failure \notin {"none", "import"}

\* C18: on every failure path (API key, HTTP status, network, parse, schema, any
\* other exception) detect returns a record with event_type GLOBAL_EVENT,
\* confidence LOW, no entities and a source outside the allowed sources;
\* process_raw_text on such a record returns None and leaves AcceptanceState as
\* it was, whatever AcceptanceState holds
C18_FallbackRejected ==
    /\ DetectFellBack =>
        /\ det.kind = "dict"
        /\ det.ev.event_type = "GLOBAL_EVENT"
        /\ det.ev.confidence = "LOW"
        /\ det.ev.entities = ListOf(<<>>)
        /\ det.ev.source \in FallbackSources
        /\ SOURCE_MAP(Upper(det.ev.source)) \notin ALLOWED_SOURCES
    /\ (DetectFellBack /\ pc = "done") => (ret = RetNone /\ last = prev)
    /\ \A s \in FallbackSources :
          /\ process_raw_text(DetectDict(safe_fallback(s)), last).ret = RetNone
          /\ process_raw_text(DetectDict(safe_fallback(s)), last).last = last

C18_Witness ==
    /\ pc = "done"
    /\ failure = "schema"
    /\ det = DetectDict(safe_fallback("invalid_schema"))
    /\ prev.set
    /\ ret = RetNone
    /\ last = prev

\* both threads have returned from calls on records equal on the four fields
BothReturned ==
    /\ \A c \in Threads : callers[c].pc = "returned"
    /\ FourFieldsEqual(callers[1].event_payload, callers[2].event_payload)

BothTrue == \A c \in Threads : callers[c].ret = RetBool(TRUE)

\* both threads read AcceptanceState at RULE 5 before either wrote it
BothReadBeforeWrite ==
    /\ callers[1].seen = callers[2].seen
    /\ \A c \in Threads :
          should_accept_event(callers[c].event_payload, callers[c].seen) = "accept"

\* C19: when two threads call should_accept_event on records equal on the four
\* fields and both pass RULE 5 before either writes AcceptanceState, both calls
\* return True; when calls run one at a time to completion, two such calls
\* never both return True, and both returning True happens in no other way
C19_BestEffortWithoutSerialization ==
    /\ (BothReturned /\ BothReadBeforeWrite) => BothTrue
    /\ (BothReturned /\ serialized) => ~BothTrue
    /\ (BothReturned /\ BothTrue) => BothReadBeforeWrite

C19_Witness ==
    /\ ~serialized
    /\ BothReturned
    /\ BothReadBeforeWrite
    /\ BothTrue
    /\ callers[1].seen.set
    /\ callers[1].event_payload.timestamp # callers[2].event_payload.timestamp

\* one at a time: the second of two such calls is rejected
C19_WitnessSerialized ==
    /\ serialized
    /\ BothReturned
    /\ callers[1].ret = RetBool(TRUE)
    /\ callers[2].ret = RetBool(FALSE)
    /\ callers[2].seen = Stored(callers[1].event_payload)

\* the k-th latest remembered pass of loop()
Pass(k) == presses[Len(presses) + 1 - k]

OnlyA(p) == p.a /\ ~p.b
OnlyB(p) == p.b /\ ~p.a

\* C20: current_index is always an index of EXAMPLE_PAYLOADS and the payload on
\* the screen is EXAMPLE_PAYLOADS[current_index]; button A moves to the next
\* payload and button B to the previous one, modulo the number of payloads;
\* A then B, and B then A, restore the index; as many A presses as there are
\* payloads come back to the index they started from
C20_PayloadCycle ==
    /\ current_index \in 0..(Len(EXAMPLE_PAYLOADS) - 1)
    /\ shown # BlankPayload => shown = PayloadAt(current_index)
    /\ (presses # <<>> /\ OnlyA(Pass(1))) =>
          current_index = (Pass(1).from + 1) % Len(EXAMPLE_PAYLOADS)
    /\ (presses # <<>> /\ OnlyB(Pass(1))) =>
          current_index = (Pass(1).from + Len(EXAMPLE_PAYLOADS) - 1) % Len(EXAMPLE_PAYLOADS)
    /\ (presses # <<>> /\ Pass(1).a /\ Pass(1).b) => current_index = Pass(1).from
    /\ (Len(presses) >= 2 /\ OnlyA(Pass(2)) /\ OnlyB(Pass(1))) =>
          current_index = Pass(2).from
    /\ (Len(presses) >= 2 /\ OnlyB(Pass(2)) /\ OnlyA(Pass(1))) =>
          current_index = Pass(2).from
    /\ ( /\ Len(presses) >= Len(EXAMPLE_PAYLOADS)
         /\ \A k \in 1..Len(EXAMPLE_PAYLOADS) : OnlyA(Pass(k)) ) =>
          current_index = Pass(Len(EXAMPLE_PAYLOADS)).from

\* from the last payload: A wraps to the first and B wraps back to the last
C20_Witness ==
    /\ Len(presses) >= 2
    /\ OnlyA(Pass(2))
    /\ OnlyB(Pass(1))
    /\ Pass(2).from = Len(EXAMPLE_PAYLOADS) - 1
    /\ Pass(1).from = 0
    /\ current_index = Len(EXAMPLE_PAYLOADS) - 1
    /\ shown = PayloadAt(Len(EXAMPLE_PAYLOADS) - 1)

\* four A presses in a row, back where they started
C20_WitnessFullCycle ==
    /\ Len(presses) >= Len(EXAMPLE_PAYLOADS)
    /\ \A k \in 1..Len(EXAMPLE_PAYLOADS) : OnlyA(Pass(k))
    /\ current_index = Pass(Len(EXAMPLE_PAYLOADS)).from
    /\ current_index = 2

\* confidence and source are strings and entities is a list of strings
StringsAndList(e) ==
    /\ IsStr(e.confidence)
    /\ IsStr(e.source)
    /\ e.entities.t = "list"
    /\ \A i \in 1..Len(e.entities.v) : IsStr(e.entities.v[i])

\* C21: for a record whose confidence and source are strings and whose
\* entities is a list of strings, normalize_event applied to the result of
\* normalize_event gives that result again
C21_NormalizeIdempotent ==
    (op = "normalize_again" /\ StringsAndList(cand)) => ret = RetRecord(cand)

\* the first call changed the source through the table and the entities
C21_Witness ==
    /\ op = "normalize_again"
    /\ cand.source = "GLOBAL_NEWS"
    /\ cand.confidence = "HIGH"
    /\ cand.entities = ListOf(<<"TRUMP", "BITCOIN">>)
    /\ ret = RetRecord(cand)

C22_WitnessAccepted ==
    /\ op = "process_event"
    /\ ret.kind = "payload"
    /\ last = Stored(cand)
    /\ prev.set

\* C23 as claimed: no payload has the symbol GLOBAL/NEWS
C23_GlobalNewsNeverProduced ==
    (op \in {"process_event", "process_raw_text"} /\ ret.kind = "payload")
    => ret.pay.symbol # "GLOBAL/NEWS"

\* C23 as amended: an accepted record has at least one entity, so the
\* zero-entities branch of the projector is never taken and the symbol of every
\* payload is the record's first entity, "/", and the second entity or NEWS; the
\* symbol is GLOBAL/NEWS only for a record whose first two entities are GLOBAL
\* and NEWS and which names a global actor after them
C23_ZeroEntitiesBranchUnreachable ==
    (op = "process_event" /\ ret.kind = "payload") =>
        /\ cand.entities.t = "list"
        /\ Len(cand.entities.v) >= 1
        /\ ret.pay.symbol \in
              {cand.entities.v[1] \o "/NEWS"}
                  \cup {cand.entities.v[1] \o "/" \o cand.entities.v[i] :
                            i \in {2} \cap (1..Len(cand.entities.v))}
        /\ ret.pay.symbol = "GLOBAL/NEWS" =>
              /\ Len(cand.entities.v) >= 3
              /\ cand.entities.v[1] = "GLOBAL"
              /\ cand.entities.v[2] = "NEWS"
              /\ \E i \in 3..Len(cand.entities.v) : cand.entities.v[i] \in GLOBAL_ENTITIES

\* a payload with the symbol GLOBAL/NEWS, from three entities
C23_Witness ==
    /\ op = "process_event"
    /\ cand.entities = ListOf(<<"GLOBAL", "NEWS", "NATO">>)
    /\ ret.kind = "payload"
    /\ ret.pay.symbol = "GLOBAL/NEWS"
    /\ last = Stored(cand)

====
